---- MODULE Spec2Model ----
(***************************************************************************)
(* The manual transaction categoriser of analyser.py: main, the balance    *)
(* store (load_summary / save_summary), the pie chart and the interactive  *)
(* loop of categorise_transactions with its undo history.                  *)
(*                                                                         *)
(* Amounts are Decimals in the program; here they are integers counted in  *)
(* thousandths (mills), so that -30.00 is -30000 and the two-decimal       *)
(* formatting of save_summary is a real rounding.  Text typed by the user  *)
(* is a tuple of one-character strings, so that strip() and lower() are    *)
(* computed; category names and normalised choices are strings.  The       *)
(* start offset ranges over the 0-based indexes that --start-line          *)
(* documents.                                                              *)
(***************************************************************************)
EXTENDS Integers, Sequences, FiniteSets, TLC

VARIABLES
    pc,             \* where the program is: "main", "call", "loop", "returned", "saved", "done"
    args,           \* the parsed command line: [chart_only, has_csv, start_line]
    csv_rows,       \* the rows of the transactions CSV
    summary_file,   \* the summary CSV on disk: Missing, or <<category -> hundredths>>
    pie_chart,      \* the chart on disk: the set of wedges <<category, mills>>, {} when never drawn
    transactions,   \* the sequence of signed amounts handed to categorise_transactions
    balances,       \* the ledger: category name -> mills
    history,        \* the undo stack of [idx, cat, amt]
    i,              \* the cursor
    quit_early,     \* the early-termination flag
    choice,         \* raw_choice.strip().lower() of the last prompt
    new_cat,        \* the stripped label typed at the last "New category name" prompt
    start_balances  \* the ledger as it stood when the loop was entered (line 183)

vars == <<pc, args, csv_rows, summary_file, pie_chart, transactions, balances,
          history, i, quit_early, choice, new_cat, start_balances>>

mainVars == <<args, csv_rows, summary_file, pie_chart>>

----------------------------------------------------------------------------
(* Bounds of the model *)

(* The longest transaction list categorise_transactions is called with *)
MaxTxns == 3

(* The most rows the transactions CSV holds *)
MaxRows == 2

(* The amounts the transactions are drawn from, in mills *)
Amounts == {-30000, 0, 20000}

----------------------------------------------------------------------------
(* Text *)

(* What the user may type at the "Choice" prompt (line 212) *)
RawChoices ==
    { <<>>,
      <<" ">>,
      <<"1">>,
      <<"1", "1">>,
      <<"1", "2">>,
      <<"q">>,
      <<"Q", "u", "i", "t">>,
      <<" ", "b", " ">>,
      <<"B", "A", "C", "K">>,
      <<"i">>,
      <<" ", "I">>,
      <<"N">> }

(* What the user may type at the "New category name" prompt (line 244) *)
RawNames ==
    { <<>>,
      <<" ">>,
      <<" ", "P", "e", "t", "s", " ">>,
      <<"G", "r", "o", "c", "e", "r", "i", "e", "s">> }

Whitespace == {" ", "\t", "\n", "\r"}

UpperCase == <<"A", "B", "C", "D", "E", "F", "G", "H", "I", "J", "K", "L", "M",
               "N", "O", "P", "Q", "R", "S", "T", "U", "V", "W", "X", "Y", "Z">>

LowerCase == <<"a", "b", "c", "d", "e", "f", "g", "h", "i", "j", "k", "l", "m",
               "n", "o", "p", "q", "r", "s", "t", "u", "v", "w", "x", "y", "z">>

RECURSIVE lstrip(_)
lstrip(s) ==
    IF s # <<>> /\ Head(s) \in Whitespace THEN lstrip(Tail(s)) ELSE s

RECURSIVE rstrip(_)
rstrip(s) ==
    IF s # <<>> /\ s[Len(s)] \in Whitespace
    THEN rstrip(SubSeq(s, 1, Len(s) - 1))
    ELSE s

(* str.strip() *)
strip(s) == rstrip(lstrip(s))

lower_char(c) ==
    IF \E k \in 1..Len(UpperCase) : UpperCase[k] = c
    THEN LowerCase[CHOOSE k \in 1..Len(UpperCase) : UpperCase[k] = c]
    ELSE c

(* str.lower() *)
lower(s) == [k \in 1..Len(s) |-> lower_char(s[k])]

(* The string a tuple of characters spells *)
RECURSIVE Text(_)
Text(s) == IF s = <<>> THEN "" ELSE Head(s) \o Text(Tail(s))

----------------------------------------------------------------------------
(* The ledger *)

CATEGORIES ==
    [k \in {"1", "2", "3", "4", "5", "6", "7", "8", "9", "10", "11"} |->
        CASE k = "1" -> "Groceries"
          [] k = "2" -> "Eating out"
          [] k = "3" -> "Guinness"
          [] k = "4" -> "Homewares"
          [] k = "5" -> "Transport"
          [] k = "6" -> "Entertainment"
          [] k = "7" -> "Shopping"
          [] k = "8" -> "Fitness"
          [] k = "9" -> "Subscriptions"
          [] k = "10" -> "Rent"
          [] k = "11" -> "Miscellaneous"]

CategoryNames == { CATEGORIES[k] : k \in DOMAIN CATEGORIES }

(* dict.setdefault(key, 0) *)
setdefault(b, key) == IF key \in DOMAIN b THEN b ELSE b @@ (key :> 0)

(* balances[key] += amount on a defaultdict(Decimal) *)
Add(b, key, amount) ==
    IF key \in DOMAIN b
    THEN [b EXCEPT ![key] = @ + amount]
    ELSE b @@ (key :> amount)

(* The ledger with every default category and "Income" present *)
WithDefaults(b) ==
    [c \in DOMAIN b \cup CategoryNames \cup {"Income"} |->
        IF c \in DOMAIN b THEN b[c] ELSE 0]

(* A decision: cat is <<>> for None and <<name>> for a category *)
Decision(idx, cat, amt) == [idx |-> idx, cat |-> cat, amt |-> amt]

None == <<>>

(* A file that does not exist *)
Missing == <<>>

----------------------------------------------------------------------------
(* categorise_transactions *)

(* categorise_transactions starting at the first transaction whatever the offset *)
categorise_transactions_from_zero(txns, start_line, b) ==
    /\ transactions' = txns
    /\ balances' = WithDefaults(b)
    /\ start_balances' = WithDefaults(b)
    /\ history' = <<>>
    /\ i' = 0
    /\ quit_early' = FALSE
    /\ pc' = "loop"

(* Lines 180-187: the defaults, the empty history, the cursor at start_line *)
categorise_transactions(txns, start_line, b) ==
    /\ transactions' = txns
    /\ balances' = WithDefaults(b)
    /\ start_balances' = WithDefaults(b)
    /\ history' = <<>>
    /\ i' = start_line
    /\ quit_early' = FALSE
    /\ pc' = "loop"

(* The loop is at a prompt: the while condition held *)
Prompting == pc = "loop" /\ i < Len(transactions)

amt == transactions[i + 1]

(* choice = raw_choice.strip().lower(), for each text the user may type *)
Chosen == [raw \in RawChoices |-> Text(lower(strip(raw)))]

(* new_cat = console.input(...).strip(), for each text the user may type *)
Named == [raw \in RawNames |-> Text(strip(raw))]

(* Skip recording the transaction's amount in the no-op decision *)
Skip_records_amount ==
    /\ Prompting
    /\ \E raw \in RawChoices :
        /\ Chosen[raw] = ""
        /\ choice' = Chosen[raw]
    /\ history' = Append(history, Decision(i, None, amt))
    /\ i' = i + 1
    /\ UNCHANGED <<pc, mainVars, transactions, balances, quit_early, new_cat,
                   start_balances>>

(* Enter alone: a no-op decision *)
Skip ==
    /\ Prompting
    /\ \E raw \in RawChoices :
        /\ Chosen[raw] = ""
        /\ choice' = Chosen[raw]
    /\ history' = Append(history, Decision(i, None, 0))
    /\ i' = i + 1
    /\ UNCHANGED <<pc, mainVars, transactions, balances, quit_early, new_cat,
                   start_balances>>

(* Quit that leaves the flag as it was *)
Quit_without_flag ==
    /\ Prompting
    /\ \E raw \in RawChoices :
        /\ Chosen[raw] \in {"q", "quit"}
        /\ choice' = Chosen[raw]
    /\ pc' = "returned"
    /\ UNCHANGED <<mainVars, transactions, balances, history, i, quit_early,
                   new_cat, start_balances>>

(* q / quit *)
Quit ==
    /\ Prompting
    /\ \E raw \in RawChoices :
        /\ Chosen[raw] \in {"q", "quit"}
        /\ choice' = Chosen[raw]
    /\ quit_early' = TRUE
    /\ pc' = "returned"
    /\ UNCHANGED <<mainVars, transactions, balances, history, i, new_cat,
                   start_balances>>

(* Back with nothing to go back to that still moves the cursor back *)
BackEmpty_moves_cursor ==
    /\ Prompting
    /\ \E raw \in RawChoices :
        /\ Chosen[raw] \in {"b", "back"}
        /\ choice' = Chosen[raw]
    /\ history = <<>>
    /\ i' = IF i > 0 THEN i - 1 ELSE i
    /\ UNCHANGED <<pc, mainVars, transactions, balances, history, quit_early,
                   new_cat, start_balances>>

(* b / back with nothing to go back to *)
BackEmpty ==
    /\ Prompting
    /\ \E raw \in RawChoices :
        /\ Chosen[raw] \in {"b", "back"}
        /\ choice' = Chosen[raw]
    /\ history = <<>>
    /\ UNCHANGED <<pc, mainVars, transactions, balances, history, i, quit_early,
                   new_cat, start_balances>>

(* Reversal that adds the amount again *)
Reversed_adds(b, d) ==
    IF d.cat # None THEN Add(b, d.cat[1], d.amt) ELSE b

(* The ledger after the popped decision is reversed *)
Reversed(b, d) ==
    IF d.cat # None THEN Add(b, d.cat[1], 0 - d.amt) ELSE b

(* b / back: pop the last decision and reverse it *)
Back ==
    /\ Prompting
    /\ \E raw \in RawChoices :
        /\ Chosen[raw] \in {"b", "back"}
        /\ choice' = Chosen[raw]
    /\ history # <<>>
    /\ LET d == history[Len(history)]
       IN  /\ history' = SubSeq(history, 1, Len(history) - 1)
           /\ balances' = Reversed(balances, d)
           /\ i' = d.idx
    /\ UNCHANGED <<pc, mainVars, transactions, quit_early, new_cat, start_balances>>

(* The test that lets a zero amount through *)
IncomeRefused_negative_only(a) == a < 0

(* The test that refuses "income" *)
IncomeRefused(a) == a <= 0

(* i on a transaction that is not a credit *)
IncomeRejected ==
    /\ Prompting
    /\ \E raw \in RawChoices :
        /\ Chosen[raw] = "i"
        /\ choice' = Chosen[raw]
    /\ IncomeRefused(amt)
    /\ UNCHANGED <<pc, mainVars, transactions, balances, history, i, quit_early,
                   new_cat, start_balances>>

(* i on a credit *)
Income ==
    /\ Prompting
    /\ \E raw \in RawChoices :
        /\ Chosen[raw] = "i"
        /\ choice' = Chosen[raw]
    /\ ~IncomeRefused(amt)
    /\ balances' = Add(balances, "Income", amt)
    /\ history' = Append(history, Decision(i, <<"Income">>, amt))
    /\ i' = i + 1
    /\ UNCHANGED <<pc, mainVars, transactions, quit_early, new_cat, start_balances>>

(* The test that refuses a new category's label *)
NameRefused(name) == name = ""

(* n, then a label that is refused *)
NewCategoryRejected ==
    /\ Prompting
    /\ \E raw \in RawChoices :
        /\ Chosen[raw] = "n"
        /\ choice' = Chosen[raw]
    /\ \E raw \in RawNames :
        /\ NameRefused(Named[raw])
        /\ new_cat' = Named[raw]
    /\ UNCHANGED <<pc, mainVars, transactions, balances, history, i, quit_early,
                   start_balances>>

(* n, then a label that is taken *)
NewCategory ==
    /\ Prompting
    /\ \E raw \in RawChoices :
        /\ Chosen[raw] = "n"
        /\ choice' = Chosen[raw]
    /\ \E raw \in RawNames :
        /\ ~NameRefused(Named[raw])
        /\ new_cat' = Named[raw]
    /\ balances' = Add(setdefault(balances, new_cat'), new_cat', amt)
    /\ history' = Append(history, Decision(i, <<new_cat'>>, amt))
    /\ i' = i + 1
    /\ UNCHANGED <<pc, mainVars, transactions, quit_early, start_balances>>

(* One of the numbered categories *)
Category ==
    /\ Prompting
    /\ \E raw \in RawChoices :
        /\ Chosen[raw] \in DOMAIN CATEGORIES
        /\ choice' = Chosen[raw]
    /\ LET cat == CATEGORIES[choice']
       IN  /\ balances' = Add(balances, cat, amt)
           /\ history' = Append(history, Decision(i, <<cat>>, amt))
    /\ i' = i + 1
    /\ UNCHANGED <<pc, mainVars, transactions, quit_early, new_cat, start_balances>>

(* Anything else *)
Invalid ==
    /\ Prompting
    /\ \E raw \in RawChoices :
        /\ Chosen[raw] \notin {"", "q", "quit", "b", "back", "i", "n"}
        /\ Chosen[raw] \notin DOMAIN CATEGORIES
        /\ choice' = Chosen[raw]
    /\ UNCHANGED <<pc, mainVars, transactions, balances, history, i, quit_early,
                   new_cat, start_balances>>

(* The while condition fails: return balances, quit_early *)
Return ==
    /\ pc = "loop"
    /\ i >= Len(transactions)
    /\ pc' = "returned"
    /\ UNCHANGED <<mainVars, transactions, balances, history, i, quit_early,
                   choice, new_cat, start_balances>>

----------------------------------------------------------------------------
(* categorise_transactions called on its own *)

Ledgers ==
    { <<>>,
      ("Groceries" :> -50000) @@ ("Pets" :> -10000) }

TxnLists == UNION { [1..n -> Amounts] : n \in 0..MaxTxns }

InitEngine ==
    /\ pc = "call"
    /\ args \in [chart_only : {FALSE}, has_csv : {TRUE},
                 start_line : 0..(MaxTxns + 1), from_date : {None}, to_date : {None}]
    /\ csv_rows = <<>>
    /\ summary_file = Missing
    /\ pie_chart = {}
    /\ transactions \in TxnLists
    /\ balances \in Ledgers
    /\ start_balances = balances
    /\ history = <<>>
    /\ i = 0
    /\ quit_early = FALSE
    /\ choice = ""
    /\ new_cat = ""

Call ==
    /\ pc = "call"
    /\ categorise_transactions(transactions, args.start_line, balances)
    /\ UNCHANGED <<mainVars, choice, new_cat>>

NextEngine ==
    \/ Call
    \/ Skip
    \/ Quit
    \/ BackEmpty
    \/ Back
    \/ IncomeRejected
    \/ Income
    \/ NewCategoryRejected
    \/ NewCategory
    \/ Category
    \/ Invalid
    \/ Return

SpecEngine == InitEngine /\ [][NextEngine]_vars

----------------------------------------------------------------------------
(* The program: main *)

(* A CSV row after to_decimal: date is a day number, Blank for an empty
   'Transaction Date' or Unparsed for one that is not %d/%m/%Y; debit and
   credit are in mills *)
Row(date, debit, credit) == [date |-> date, debit |-> debit, credit |-> credit]

Blank == 0

Unparsed == -1

RowKinds ==
    { Row(Blank, -30000, 0),
      Row(Unparsed, 0, 20000),
      Row(1, -30000, 0),
      Row(2, 0, 20000),
      Row(2, -1005, 20000),
      Row(2, 0, 0) }

(* Whether extract_transactions keeps the row (lines 66-91) *)
Kept(row, from_date, to_date) ==
    /\ row.date \notin {Blank, Unparsed}
    /\ ~(from_date # None /\ row.date < from_date[1])
    /\ ~(to_date # None /\ row.date > to_date[1])
    /\ (row.debit # 0 \/ row.credit # 0)

(* The single signed amount of a kept row (lines 85-89) *)
Amount(row) == IF row.debit # 0 THEN row.debit ELSE row.credit

RECURSIVE extract_transactions(_, _, _)
extract_transactions(rows, from_date, to_date) ==
    IF rows = <<>> THEN <<>>
    ELSE (IF Kept(Head(rows), from_date, to_date)
          THEN <<Amount(Head(rows))>> ELSE <<>>)
         \o extract_transactions(Tail(rows), from_date, to_date)

(* The ledger read from the summary file; empty when the file is missing *)
load_summary(file) ==
    IF file = Missing THEN <<>>
    ELSE [c \in DOMAIN file[1] |-> file[1][c] * 10]

(* f"{bal:.2f}": mills rounded half-even to hundredths *)
Format2(bal) ==
    LET q == bal \div 10
        r == bal % 10
    IN  IF r < 5 THEN q
        ELSE IF r > 5 THEN q + 1
        ELSE IF q % 2 = 0 THEN q ELSE q + 1

(* The file save_summary writes *)
save_summary(b) == <<[c \in DOMAIN b |-> Format2(b[c])]>>

(* The wedges generate_pie_chart draws: the negative balances, as magnitudes *)
Wedges(b) == { <<c, 0 - b[c]>> : c \in { k \in DOMAIN b : b[k] < 0 } }

(* The chart file after generate_pie_chart: untouched when nothing is negative *)
generate_pie_chart(b, chart) == IF Wedges(b) = {} THEN chart ELSE Wedges(b)

SummaryFilesWithPets == <<("Groceries" :> -5000) @@ ("Pets" :> -1000)>>

SummaryFiles == {Missing, SummaryFilesWithPets}

Init ==
    /\ pc = "main"
    /\ args \in [chart_only : BOOLEAN, has_csv : BOOLEAN, start_line : {0, 1},
                 from_date : {None, <<2>>}, to_date : {None}]
    /\ csv_rows \in UNION { [1..n -> RowKinds] : n \in 0..MaxRows }
    /\ summary_file \in SummaryFiles
    /\ pie_chart = {}
    /\ transactions = <<>>
    /\ balances = <<>>
    /\ start_balances = <<>>
    /\ history = <<>>
    /\ i = 0
    /\ quit_early = FALSE
    /\ choice = ""
    /\ new_cat = ""

engineVars == <<transactions, history, i, quit_early, choice, new_cat,
                start_balances>>

(* --chart-only: chart the stored ledger and exit (lines 267-271) *)
MainChartOnly ==
    /\ pc = "main"
    /\ args.chart_only
    /\ balances' = load_summary(summary_file)
    /\ pie_chart' = generate_pie_chart(balances', pie_chart)
    /\ pc' = "done"
    /\ UNCHANGED <<args, csv_rows, summary_file, engineVars>>

(* No transactions_csv on the command line (lines 273-275) *)
MainNoCsv ==
    /\ pc = "main"
    /\ ~args.chart_only
    /\ ~args.has_csv
    /\ balances' = load_summary(summary_file)
    /\ pc' = "done"
    /\ UNCHANGED <<mainVars, engineVars>>

(* Nothing extracted (lines 277-281) *)
MainNoTxns ==
    /\ pc = "main"
    /\ ~args.chart_only
    /\ args.has_csv
    /\ extract_transactions(csv_rows, args.from_date, args.to_date) = <<>>
    /\ balances' = load_summary(summary_file)
    /\ pc' = "done"
    /\ UNCHANGED <<mainVars, engineVars>>

(* The call of categorise_transactions (line 283) *)
MainCategorise ==
    /\ pc = "main"
    /\ ~args.chart_only
    /\ args.has_csv
    /\ extract_transactions(csv_rows, args.from_date, args.to_date) # <<>>
    /\ categorise_transactions(
          extract_transactions(csv_rows, args.from_date, args.to_date),
          args.start_line, load_summary(summary_file))
    /\ UNCHANGED <<mainVars, choice, new_cat>>

(* Saving only when the session ran to the end *)
MainSave_unless_quit ==
    /\ pc = "returned"
    /\ summary_file' = IF quit_early THEN summary_file ELSE save_summary(balances)
    /\ pc' = "saved"
    /\ UNCHANGED <<args, csv_rows, pie_chart, balances, engineVars>>

(* save_summary(args.summary_file, balances) (line 284) *)
MainSave ==
    /\ pc = "returned"
    /\ summary_file' = save_summary(balances)
    /\ pc' = "saved"
    /\ UNCHANGED <<args, csv_rows, pie_chart, balances, engineVars>>

(* generate_pie_chart(balances, args.pie_chart) (line 285) *)
MainChart ==
    /\ pc = "saved"
    /\ pie_chart' = generate_pie_chart(balances, pie_chart)
    /\ pc' = "done"
    /\ UNCHANGED <<args, csv_rows, summary_file, balances, engineVars>>

Next ==
    \/ MainChartOnly
    \/ MainNoCsv
    \/ MainNoTxns
    \/ MainCategorise
    \/ Skip
    \/ Quit
    \/ BackEmpty
    \/ Back
    \/ IncomeRejected
    \/ Income
    \/ NewCategoryRejected
    \/ NewCategory
    \/ Category
    \/ Invalid
    \/ Return
    \/ MainSave
    \/ MainChart

Spec == Init /\ [][Next]_vars

----------------------------------------------------------------------------
(* Properties *)

InEngine == pc \in {"loop", "returned"}

Top(h) == h[Len(h)]

Popped(h) == SubSeq(h, 1, Len(h) - 1)

UndoChoices == {"b", "back"}

QuitChoices == {"q", "quit"}

(* The ledger obtained by applying the decisions of h, in order, to b *)
RECURSIVE Replay(_, _)
Replay(b, h) ==
    IF h = <<>> THEN b
    ELSE LET d == Head(h)
         IN  Replay(IF d.cat = None THEN b
                    ELSE Add(setdefault(b, d.cat[1]), d.cat[1], d.amt),
                    Tail(h))

(* The sum of the amounts the decisions of h apply to category c *)
RECURSIVE Applied(_, _)
Applied(h, c) ==
    IF h = <<>> THEN 0
    ELSE (IF Head(h).cat = <<c>> THEN Head(h).amt ELSE 0) + Applied(Tail(h), c)

(* The balance of c that the starting ledger and the active decisions give *)
Expected(c) ==
    (IF c \in DOMAIN start_balances THEN start_balances[c] ELSE 0)
    + Applied(history, c)

(* C1: in categorise_transactions the ledger is always the starting ledger
   with exactly the decisions still on the history stack applied in order:
   the same set of categories and the same balance for each. *)
C1_LedgerIsReplayOfActiveDecisions ==
    InEngine => balances = Replay(start_balances, history)

(* C2: an undo that pops a decision on a category that the starting ledger
   does not hold and that no other active decision references removes that
   category from the ledger. *)
C2_UndoRemovesCreatedCategory ==
    [][ ( /\ Prompting
          /\ choice' \in UndoChoices
          /\ history # <<>>
          /\ Top(history).cat # None
          /\ Top(history).cat[1] \notin DOMAIN start_balances
          /\ \A k \in 1..(Len(history) - 1) : history[k].cat # Top(history).cat )
        => Top(history).cat[1] \notin DOMAIN balances' ]_vars

(* C3: "new category" with a label that is empty or that is already a
   category of the ledger is rejected: cursor, ledger and history stay as
   they are and the same transaction is prompted again. *)
C3_EmptyOrUsedLabelRejected ==
    [][ ( /\ Prompting
          /\ choice' = "n"
          /\ (new_cat' = "" \/ new_cat' \in DOMAIN balances) )
        => ( /\ UNCHANGED <<i, balances, history>>
             /\ pc' = "loop" ) ]_vars

(* C4: "income" on an amount <= 0 is rejected with cursor, ledger and
   history unchanged; on an amount > 0 it adds the amount to Income and to no
   other category, records one decision and advances the cursor by one. *)
C4_Income ==
    [][ (Prompting /\ choice' = "i")
        => IF amt <= 0
           THEN /\ UNCHANGED <<i, balances, history>>
                /\ pc' = "loop"
           ELSE /\ DOMAIN balances' = DOMAIN balances
                /\ balances'["Income"] = balances["Income"] + amt
                /\ \A c \in DOMAIN balances \ {"Income"} : balances'[c] = balances[c]
                /\ history' = Append(history, Decision(i, <<"Income">>, amt))
                /\ i' = i + 1 ]_vars

C4_Witness ==
    /\ InEngine
    /\ choice = "i"
    /\ history # <<>>
    /\ Top(history) = Decision(i - 1, <<"Income">>, transactions[i])
    /\ balances["Income"] = start_balances["Income"] + transactions[i]

(* C5: once the engine has started, main leaves only after save_summary has
   written the ledger of the decisions active at termination and the chart
   was drawn from that ledger, whether the session ended by quit or by the
   cursor passing the last transaction. *)
C5_LedgerPersisted ==
    (pc \in {"saved", "done"} /\ transactions # <<>>)
    => /\ summary_file # Missing
       /\ DOMAIN start_balances \subseteq DOMAIN summary_file[1]
       /\ \A k \in DOMAIN history :
            history[k].cat # None => history[k].cat[1] \in DOMAIN summary_file[1]
       /\ \A c \in DOMAIN summary_file[1] :
            summary_file[1][c] = Format2(Expected(c))
       /\ pc = "done" =>
            pie_chart = { <<c, 0 - Expected(c)>> :
                          c \in { k \in DOMAIN summary_file[1] : Expected(k) < 0 } }

C5_Witness ==
    /\ pc = "done"
    /\ quit_early
    /\ Len(history) = 1
    /\ Top(history) = Decision(0, <<"Pets">>, -1005)
    /\ summary_file # Missing
    /\ summary_file[1]["Pets"] = -100
    /\ <<"Pets", 1005>> \in pie_chart

(* C6: categorise_transactions returns only when the cursor has passed the
   last transaction or on quit; the flag is true exactly when it was quit;
   quit changes neither cursor, ledger nor history. *)
C6_Termination ==
    [][ /\ (pc = "loop" /\ pc' = "returned")
           => /\ \/ (i >= Len(transactions) /\ quit_early' = FALSE)
                 \/ (i < Len(transactions) /\ choice' \in QuitChoices
                     /\ quit_early' = TRUE)
              /\ UNCHANGED <<i, balances, history>>
        /\ (Prompting /\ choice' \in QuitChoices) => pc' = "returned" ]_vars

C6_Witness ==
    /\ pc = "returned"
    /\ quit_early
    /\ choice \in QuitChoices
    /\ history # <<>>
    /\ i < Len(transactions)

(* C7: undo with an empty history changes nothing: cursor, ledger and
   history stay as they are and the same transaction is prompted again. *)
C7_UndoOnEmptyHistory ==
    [][ (Prompting /\ choice' \in UndoChoices /\ history = <<>>)
        => ( /\ UNCHANGED <<i, balances, history>>
             /\ pc' = "loop" ) ]_vars

C7_Witness ==
    /\ Prompting
    /\ choice \in UndoChoices
    /\ history = <<>>
    /\ i = args.start_line
    /\ i > 0

(* C8: undo with a non-empty history pops exactly the most recent decision,
   subtracts its amount from its category (nothing for a skip), sets the
   cursor to its transaction index and appends nothing; so a predefined
   category or income chosen at the cursor and then undone gives back the
   cursor, ledger and history of before the choice. *)
C8_Undo ==
    [][ /\ (Prompting /\ choice' \in UndoChoices /\ history # <<>>)
           => /\ history' = Popped(history)
              /\ i' = Top(history).idx
              /\ pc' = "loop"
              /\ balances' =
                   IF Top(history).cat = None THEN balances
                   ELSE [balances EXCEPT
                           ![Top(history).cat[1]] = @ - Top(history).amt]
        /\ (Prompting /\ (choice' \in DOMAIN CATEGORIES \/ (choice' = "i" /\ amt > 0)))
           => /\ history' # <<>>
              /\ Popped(history') = history
              /\ Top(history').idx = i
              /\ Reversed(balances', Top(history')) = balances ]_vars

C8_Witness ==
    /\ Prompting
    /\ choice \in UndoChoices
    /\ Len(history) = 1
    /\ i = args.start_line + 1
    /\ balances = Replay(start_balances, history)

(* C9: skip records one no-op decision (category none, amount 0) for the
   transaction at the cursor and advances the cursor by one, leaving every
   balance and the category set unchanged; undoing a skip leaves the ledger
   unchanged too. *)
C9_Skip ==
    [][ /\ (Prompting /\ choice' = "")
           => /\ history' = Append(history, Decision(i, None, 0))
              /\ i' = i + 1
              /\ balances' = balances
        /\ (Prompting /\ choice' \in UndoChoices /\ history # <<>>
              /\ Top(history) = Decision(i - 1, None, 0))
           => (balances' = balances /\ i' = i - 1) ]_vars

C9_Witness ==
    /\ Prompting
    /\ choice = ""
    /\ Len(history) = 2
    /\ Top(history) = Decision(i - 1, None, 0)
    /\ balances # start_balances

(* C10: with a start offset s >= 0 the history always has cursor - s entries
   and its k-th entry carries transaction index s + k (from 0); so the cursor
   never goes below s, and never beyond the number of transactions when s
   does not. *)
C10_HistoryTracksCursor ==
    (InEngine /\ args.start_line >= 0)
    => /\ Len(history) = i - args.start_line
       /\ \A k \in 1..Len(history) : history[k].idx = args.start_line + k - 1
       /\ i >= args.start_line
       /\ args.start_line <= Len(transactions) => i <= Len(transactions)

C10_Witness ==
    /\ Prompting
    /\ args.start_line = 1
    /\ choice \in UndoChoices
    /\ Len(history) = 0
    /\ new_cat = "Pets"

====
